---- MODULE Spec2Model ----
(***************************************************************************)
(* Model of the baseball pitch simulator: the force functions of           *)
(* npgphysics/forces.py, the Euler step of npgmath/euler.py and the        *)
(* Pitch class of baseball/pitches.py.                                     *)
(*                                                                         *)
(* Numbers.  The program computes with IEEE doubles.  Here a float is an   *)
(* integer count of model units, or NaN.  Products and sums are exact; a   *)
(* quotient is rounded toward zero once, after every product that feeds it *)
(* has been taken.  0/0 is NaN, and NaN propagates through every           *)
(* arithmetic operation and makes every comparison false, as in numpy and  *)
(* in Python.  The physical constants are expressed in model units (the    *)
(* unit of mass is the mass of the ball, and so on), so their numerals are *)
(* not the SI numerals of the source.                                      *)
(*                                                                         *)
(* Objects.  Python lists are objects with identity: heap maps an address  *)
(* to the contents of a list, and the fields of a Pitch hold addresses.    *)
(***************************************************************************)
EXTENDS Integers, Sequences, FiniteSets, TLC

\* ------------------------------------------------------------------ floats

\* float('nan'): the result of 0.0 / 0.0 in numpy (forces.py line 62).
NaN == -999999

IsNaN(a) == a = NaN

Abs(a) == IF a < 0 THEN -a ELSE a

Min(a, b) == IF a <= b THEN a ELSE b

\* a + b on floats
FAdd(a, b) == IF IsNaN(a) \/ IsNaN(b) THEN NaN ELSE a + b

\* a * b on floats
FMul(a, b) == IF IsNaN(a) \/ IsNaN(b) THEN NaN ELSE a * b

\* a / b on floats, rounded toward zero; 0/0 is nan
FDiv(a, b) ==
    IF IsNaN(a) \/ IsNaN(b) \/ b = 0 THEN NaN
    ELSE IF (a < 0) = (b < 0) THEN Abs(a) \div Abs(b)
    ELSE -(Abs(a) \div Abs(b))

\* a < b on floats: false when either is nan
FLt(a, b) == ~IsNaN(a) /\ ~IsNaN(b) /\ a < b

\* a > b on floats: false when either is nan
FGt(a, b) == ~IsNaN(a) /\ ~IsNaN(b) /\ a > b

\* a >= b on floats: false when either is nan
FGe(a, b) == ~IsNaN(a) /\ ~IsNaN(b) /\ a >= b

\* a <= b on floats: false when either is nan
FLe(a, b) == ~IsNaN(a) /\ ~IsNaN(b) /\ a <= b

RECURSIVE SqrtBetween(_, _, _)
SqrtBetween(n, lo, hi) ==
    IF lo >= hi THEN lo
    ELSE LET mid == (lo + hi + 1) \div 2
         IN  IF mid * mid <= n THEN SqrtBetween(n, mid, hi)
             ELSE SqrtBetween(n, lo, mid - 1)

\* numpy.sqrt on a float that is a sum of squares, rounded toward zero
sqrt(n) == IF IsNaN(n) THEN NaN ELSE SqrtBetween(n, 0, Min(n, 46340))

RECURSIVE SumTo(_, _, _)
SumTo(a, b, n) ==
    IF n = 0 THEN 0 ELSE FAdd(SumTo(a, b, n - 1), FMul(a[n], b[n]))

\* numpy.dot of two vectors of the same length
dot(a, b) == SumTo(a, b, Len(a))

\* numpy.cross of two 3-vectors
cross(a, b) ==
    << FAdd(FMul(a[2], b[3]), FMul(-1, FMul(a[3], b[2]))),
       FAdd(FMul(a[3], b[1]), FMul(-1, FMul(a[1], b[3]))),
       FAdd(FMul(a[1], b[2]), FMul(-1, FMul(a[2], b[1]))) >>

\* a Python list built by a comprehension: the values, computed once
List(f) == << >> \o f

\* [a + b for a, b in zip(x, y)]: as long as the shorter of the two
ZipAdd(x, y) == List([i \in 1..Min(Len(x), Len(y)) |-> FAdd(x[i], y[i])])

\* ------------------------------------------------------ forces.py, euler.py

\* scipy.constants.g, in model units
g == 1

\* forces.air_density, in model units
air_density == 1

calculate_gravity(m) == << 0, FMul(FMul(-1, g), m), 0 >>

\* (-0.5 * drag_coefficient * area * air_density * magnitude**2) * unit_vector
\* with unit_vector = velocity / magnitude: the quotient by 2 * magnitude is
\* taken last.  A zero velocity has magnitude 0 and unit_vector 0/0.
calculate_drag(v, a, dc) ==
    LET magnitude == sqrt(dot(v, v))
    IN  List([i \in 1..Len(v) |->
                FDiv(FMul(FMul(-1, FMul(FMul(FMul(dc, a), air_density),
                                        FMul(magnitude, magnitude))),
                          v[i]),
                     FMul(2, magnitude))])

calculate_magnus(v, s) == cross(v, s)

RECURSIVE SumForces(_, _)
SumForces(net_force, fs) ==
    IF fs = << >> THEN net_force
    ELSE SumForces(ZipAdd(net_force, Head(fs)), Tail(fs))

\* net_force starts as [0,0,0] and is zipped with each force in turn
add_forces(forces) == SumForces(<< 0, 0, 0 >>, forces)

\* new_state with the position advanced by the second derivative: xpp
\* passed where xp belongs
new_state_position_by_xpp(x, xp, xpp, increment) ==
    << ZipAdd(x, List([i \in 1..Len(xpp) |-> FMul(xpp[i], increment)])),
       ZipAdd(xp, List([i \in 1..Len(xpp) |-> FMul(xpp[i], increment)])) >>

\* new_state with the position advanced by the velocity it has just
\* computed, not by the velocity of the start of the step
new_state_late_velocity(x, xp, xpp, increment) ==
    << ZipAdd(x, List([i \in 1..Len(xp) |->
                         FMul(FAdd(xp[i], FMul(xpp[i], increment)),
                              increment)])),
       ZipAdd(xp, List([i \in 1..Len(xpp) |-> FMul(xpp[i], increment)])) >>

\* euler.new_state: two fresh lists, the arguments are only read
new_state(x, xp, xpp, increment) ==
    << ZipAdd(x, List([i \in 1..Len(xp) |-> FMul(xp[i], increment)])),
       ZipAdd(xp, List([i \in 1..Len(xpp) |-> FMul(xpp[i], increment)])) >>

\* ------------------------------------------------------------- pitches.py

\* Pitch.mass, in model units
mass == 1

\* Pitch.drag_coefficient, in model units
drag_coefficient == 1

\* Pitch.area, in model units
area == 1

\* the most iterations of the while loop the model follows in one throw
MaxSteps == 7

\* the most throw calls made in one behaviour
MaxCalls == 2

\* the longest force vector handed to add_forces, and the most dimensions
\* of a body
MaxDim == 4

\* my_pitches: the bodies of one run
Pitches == {1, 2}

\* release points: in flight, on the ground, down range
Positions == { << 0, 2, 0 >>, << 0, 0, 0 >>, << 3, 1, 0 >>, << 2, 3, -1 >> }

\* initial velocities
Velocities == { << 0, 0, 0 >>, << 2, 0, 0 >>, << 1, 1, 0 >>, << 2, -1, 1 >> }

\* spins of the first body; the second body has SideSpin
Spins == { << 0, 0, 0 >>, << 0, 0, -1 >> }

SideSpin == << 0, 1, 0 >>

\* arguments of throw
Distances == { 0, 2, 4 }

Increments == { 0, 1, 2 }

\* components of the force vectors handed to add_forces
Components == { 0, 1 }

VARIABLES
    heap,        \* address -> contents of a list object
    position,    \* self.position of each pitch: an address
    velocity,    \* self.velocity of each pitch: an address
    spin,        \* self.spin of each pitch: an address
    trail,       \* self.trail of each pitch: a list of addresses
    pc,          \* where each pitch's throw is: "idle", "loop", "returned",
                 \* or "raised" when it ended in an exception
    distance,    \* argument of the running or last throw of each pitch
    dt,          \* argument of the running or last throw of each pitch
    f_gravity,   \* local of the running throw
    steps,       \* history: integration steps taken by each pitch
    atCall,      \* history: the body as it was when its throw was called
    completed,   \* history: the distances of the throws each pitch completed
    forces,      \* argument of a direct call of add_forces
    net,         \* what that call returned
    called       \* whether that call has been made

vars == << heap, position, velocity, spin, trail, pc, distance, dt,
           f_gravity, steps, atCall, completed, forces, net, called >>

pitchVars == << heap, position, velocity, spin, trail, pc, distance, dt,
                f_gravity, steps, atCall, completed >>

\* the contents of the lists a pitch refers to
Body(p) ==
    [ position |-> heap[position[p]],
      velocity |-> heap[velocity[p]],
      spin     |-> heap[spin[p]],
      trail    |-> [i \in 1..Len(trail[p]) |-> heap[trail[p][i]]] ]

\* Pitch.__init__ for two pitches built, as the preset pitches are, from
\* the same position list (address 1) and velocity list (address 2), each
\* with a spin list of its own; trail = [self.position] holds the address.
InitPitches(p0, v0, s1, s2) ==
    /\ heap = << p0, v0, s1, s2 >>
    /\ position = [p \in Pitches |-> 1]
    /\ velocity = [p \in Pitches |-> 2]
    /\ spin = [p \in Pitches |-> 2 + p]
    /\ trail = [p \in Pitches |-> << 1 >>]
    /\ pc = [p \in Pitches |-> "idle"]
    /\ distance = [p \in Pitches |-> 0]
    /\ dt = [p \in Pitches |-> 0]
    /\ f_gravity = << >>
    /\ steps = [p \in Pitches |-> 0]
    /\ atCall = [p \in Pitches |-> << >>]
    /\ completed = [p \in Pitches |-> << >>]

Init ==
    /\ \E p0 \in Positions, v0 \in Velocities, s1 \in Spins :
           InitPitches(p0, v0, s1, SideSpin)
    /\ forces = << >>
    /\ net = << >>
    /\ called = FALSE

\* iterations of the while loop made by the running throw of p
StepsOfCall(p) == Len(trail[p]) - Len(atCall[p].trail)

\* throw starting its trail afresh from the current position
CallResetTrail(p, d, t) ==
    /\ \A q \in Pitches : pc[q] # "loop"
    /\ Len(completed[1]) + Len(completed[2]) < MaxCalls
    /\ pc' = [pc EXCEPT ![p] = "loop"]
    /\ distance' = [distance EXCEPT ![p] = d]
    /\ dt' = [dt EXCEPT ![p] = t]
    /\ f_gravity' = calculate_gravity(mass)
    /\ trail' = [trail EXCEPT ![p] = << position[p] >>]
    /\ atCall' = [atCall EXCEPT ![p] = [Body(p) EXCEPT !.trail =
                                          << heap[position[p]] >>]]
    /\ UNCHANGED << heap, position, velocity, spin, steps, completed,
                    forces, net, called >>

\* throw is entered: f_gravity is computed once.  The program is
\* synchronous, so no other throw is running.
Call(p, d, t) ==
    /\ \A q \in Pitches : pc[q] # "loop"
    /\ Len(completed[1]) + Len(completed[2]) < MaxCalls
    /\ pc' = [pc EXCEPT ![p] = "loop"]
    /\ distance' = [distance EXCEPT ![p] = d]
    /\ dt' = [dt EXCEPT ![p] = t]
    /\ f_gravity' = calculate_gravity(mass)
    /\ atCall' = [atCall EXCEPT ![p] = Body(p)]
    /\ UNCHANGED << heap, position, velocity, spin, trail, steps, completed,
                    forces, net, called >>

\* the while condition with <= and >= for < and >
WhileCondInclusive(pos, d) == FLe(pos[1], d) /\ FGe(pos[2], 0)

\* the while condition: position[0] < distance and position[1] > 0
WhileCond(pos, d) == FLt(pos[1], d) /\ FGt(pos[2], 0)

\* the while condition raises IndexError: position[1] is read, once
\* position[0] < distance is true, of a position with one component
ConditionRaises(pos, d) == FLt(pos[1], d) /\ Len(pos) < 2

\* numpy.cross raises ValueError unless both vectors have 2 or 3 components
CrossRaises(a, b) == Len(a) \notin { 2, 3 } \/ Len(b) \notin { 2, 3 }

\* numpy.cross of two 2-vectors is a scalar, and zip in add_forces raises
\* TypeError on it
CrossIsScalar(a, b) == Len(a) = 2 /\ Len(b) = 2

\* the next evaluation of the while condition, or the loop body it lets
\* in, raises an exception
Raises(p) ==
    \/ ConditionRaises(heap[position[p]], distance[p])
    \/ /\ Len(heap[position[p]]) >= 2
       /\ WhileCond(heap[position[p]], distance[p])
       /\ \/ CrossRaises(heap[velocity[p]], heap[spin[p]])
          \/ CrossIsScalar(heap[velocity[p]], heap[spin[p]])

\* the step written into the lists self.position and self.velocity refer to
RebindInPlace(h, pa, va, ns) ==
    [ heap |-> [h EXCEPT ![pa] = ns[1], ![va] = ns[2]],
      position |-> pa,
      velocity |-> va ]

\* new_state returns two fresh lists; throw rebinds self.position and
\* self.velocity to them
Rebind(h, pa, va, ns) ==
    [ heap |-> h \o << ns[1], ns[2] >>,
      position |-> Len(h) + 1,
      velocity |-> Len(h) + 2 ]

\* a do-while for the while: the first iteration is made unconditionally
StepDoWhile(p) ==
    /\ pc[p] = "loop"
    /\ ~Raises(p)
    /\ WhileCond(heap[position[p]], distance[p]) \/ StepsOfCall(p) = 0
    /\ StepsOfCall(p) < MaxSteps
    /\ \E net_force \in { add_forces(<< f_gravity,
                                        calculate_drag(heap[velocity[p]],
                                                       area, drag_coefficient),
                                        calculate_magnus(heap[velocity[p]],
                                                         heap[spin[p]]) >>) } :
       \E acceleration \in { List([i \in 1..Len(net_force) |->
                                     FDiv(net_force[i], mass)]) } :
       \E ns \in { new_state(heap[position[p]], heap[velocity[p]],
                             acceleration, dt[p]) } :
       \E b \in { Rebind(heap, position[p], velocity[p], ns) } :
           /\ heap' = b.heap
           /\ position' = [position EXCEPT ![p] = b.position]
           /\ velocity' = [velocity EXCEPT ![p] = b.velocity]
           /\ trail' = [trail EXCEPT ![p] = Append(@, b.position)]
    /\ steps' = [steps EXCEPT ![p] = @ + 1]
    /\ UNCHANGED << spin, pc, distance, dt, f_gravity, atCall, completed,
                    forces, net, called >>

\* one iteration of the while loop
Step(p) ==
    /\ pc[p] = "loop"
    /\ ~Raises(p)
    /\ WhileCond(heap[position[p]], distance[p])
    /\ StepsOfCall(p) < MaxSteps
    \* each local is bound once to its value
    /\ \E net_force \in { add_forces(<< f_gravity,
                                        calculate_drag(heap[velocity[p]],
                                                       area, drag_coefficient),
                                        calculate_magnus(heap[velocity[p]],
                                                         heap[spin[p]]) >>) } :
       \E acceleration \in { List([i \in 1..Len(net_force) |->
                                     FDiv(net_force[i], mass)]) } :
       \E ns \in { new_state(heap[position[p]], heap[velocity[p]],
                             acceleration, dt[p]) } :
       \E b \in { Rebind(heap, position[p], velocity[p], ns) } :
           /\ heap' = b.heap
           /\ position' = [position EXCEPT ![p] = b.position]
           /\ velocity' = [velocity EXCEPT ![p] = b.velocity]
           /\ trail' = [trail EXCEPT ![p] = Append(@, b.position)]
    /\ steps' = [steps EXCEPT ![p] = @ + 1]
    /\ UNCHANGED << spin, pc, distance, dt, f_gravity, atCall, completed,
                    forces, net, called >>

\* throw with an if for the while: it returns after one step at the latest
ReturnAfterOneStep(p) ==
    /\ pc[p] = "loop"
    /\ ~Raises(p)
    /\ \/ ~WhileCond(heap[position[p]], distance[p])
       \/ StepsOfCall(p) >= 1
    /\ pc' = [pc EXCEPT ![p] = "returned"]
    /\ completed' = [completed EXCEPT ![p] = Append(@, distance[p])]
    /\ UNCHANGED << heap, position, velocity, spin, trail, distance, dt,
                    f_gravity, steps, atCall, forces, net, called >>

\* the while condition is false: throw returns
Return(p) ==
    /\ pc[p] = "loop"
    /\ ~Raises(p)
    /\ ~WhileCond(heap[position[p]], distance[p])
    /\ pc' = [pc EXCEPT ![p] = "returned"]
    /\ completed' = [completed EXCEPT ![p] = Append(@, distance[p])]
    /\ UNCHANGED << heap, position, velocity, spin, trail, distance, dt,
                    f_gravity, steps, atCall, forces, net, called >>

Next ==
    \/ \E p \in Pitches, d \in Distances, t \in Increments : Call(p, d, t)
    \/ \E p \in Pitches : Step(p)
    \/ \E p \in Pitches : Return(p)

Spec == Init /\ [][Next]_vars

\* ------------------------------------------------ bodies of N dimensions

\* a vector cut or padded with zeros to n components
Resize(v, n) == List([i \in 1..n |-> IF i <= Len(v) THEN v[i] ELSE 0])

\* two pitches whose position, velocity and spin all have n components
InitDims ==
    /\ \E n \in 1..MaxDim, p0 \in Positions, v0 \in Velocities, s1 \in Spins :
           InitPitches(Resize(p0, n), Resize(v0, n), Resize(s1, n),
                       Resize(SideSpin, n))
    /\ forces = << >>
    /\ net = << >>
    /\ called = FALSE

\* the exception leaves throw: the body stays as the last step left it
Raise(p) ==
    /\ pc[p] = "loop"
    /\ Raises(p)
    /\ pc' = [pc EXCEPT ![p] = "raised"]
    /\ UNCHANGED << heap, position, velocity, spin, trail, distance, dt,
                    f_gravity, steps, atCall, completed, forces, net, called >>

NextDims ==
    \/ Next
    \/ \E p \in Pitches : Raise(p)

SpecDims == InitDims /\ [][NextDims]_vars

\* ------------------------------------------- add_forces called on its own

\* the most force vectors in one call of add_forces
MaxForces == 2

\* force vectors of 1 to MaxDim dimensions
ForceVectors ==
    UNION { { List(f) : f \in [1..n -> Components] } : n \in 1..MaxDim }

\* a call with a non-empty list of at most MaxForces force vectors
InitForces ==
    /\ InitPitches(<< 0, 2, 0 >>, << 2, 0, 0 >>, << 0, 0, 0 >>, SideSpin)
    /\ \E k \in 1..MaxForces :
           \E fs \in [1..k -> ForceVectors] : forces = List(fs)
    /\ net = << >>
    /\ called = FALSE

AddForces ==
    /\ ~called
    /\ net' = add_forces(forces)
    /\ called' = TRUE
    /\ UNCHANGED << forces, pitchVars >>

SpecForces == InitForces /\ [][AddForces]_vars

\* ------------------------------------------------------------------ claims

\* x >= distance or height <= 0, for the distance of the running or last throw
Terminated(p) ==
    \/ FGe(heap[position[p]][1], distance[p])
    \/ FLe(heap[position[p]][2], 0)

\* the same, of the body as it was when the throw was called
TerminatedAtCall(p) ==
    \/ FGe(atCall[p].position[1], distance[p])
    \/ FLe(atCall[p].position[2], 0)

HasNaN(v) == \E i \in 1..Len(v) : IsNaN(v[i])

\* a throw that is running or has returned
Thrown(p) == pc[p] \in { "loop", "returned" }

\* C1: whenever throw(distance, dt) with dt > 0 returns, the body is
\* Terminated: its current position, which is the last entry of its trail,
\* has x >= distance or height <= 0.
C1_ReturnsTerminated ==
    \A p \in Pitches :
        (pc[p] = "returned" /\ dt[p] > 0) =>
            /\ trail[p][Len(trail[p])] = position[p]
            /\ Terminated(p)

\* C2: the trail is append-only and counts the steps: it starts with the
\* release point, holds one entry more than the steps taken, a step appends
\* the new position at the end, and nothing changes an entry once recorded.
C2_TrailAppendOnly ==
    /\ [](\A p \in Pitches :
            /\ Len(trail[p]) = 1 + steps[p]
            /\ trail[p][1] = 1)
    /\ [][\A p \in Pitches :
            /\ \A i \in 1..Len(trail[p]) :
                   /\ i <= Len(trail'[p])
                   /\ heap'[trail'[p][i]] = heap[trail[p][i]]
            /\ \/ /\ steps'[p] = steps[p]
                  /\ Len(trail'[p]) = Len(trail[p])
               \/ /\ steps'[p] = steps[p] + 1
                  /\ Len(trail'[p]) = Len(trail[p]) + 1
                  /\ trail'[p][Len(trail'[p])] = position'[p]]_vars

\* C2 witness: a throw has returned after three steps, each recorded
C2_Witness ==
    \E p \in Pitches :
        pc[p] = "returned" /\ steps[p] = 3 /\ Len(trail[p]) = 4

\* C3: a throw called on a body whose x is already >= distance or whose
\* height is already <= 0 takes no step: position, velocity and trail stay
\* as they were at the call.
C3_DegenerateStart ==
    \A p \in Pitches :
        (Thrown(p) /\ TerminatedAtCall(p)) =>
            /\ Body(p) = atCall[p]
            /\ Len(trail[p]) = Len(atCall[p].trail)
            /\ StepsOfCall(p) = 0

\* C3 witness: a first throw with valid arguments has returned from a
\* release point at the target distance, the trail still of length 1
C3_Witness ==
    \E p \in Pitches :
        /\ pc[p] = "returned"
        /\ TerminatedAtCall(p)
        /\ distance[p] > 0 /\ dt[p] > 0
        /\ heap[position[p]][2] > 0
        /\ Len(trail[p]) = 1

\* a step of the loop is taken by p in this transition
Stepped(p) == steps'[p] = steps[p] + 1

\* C4: a step is an explicit Euler step from the start-of-step state: on
\* every axis the new position is position + velocity * dt with the old
\* velocity, the new velocity is velocity + acceleration * dt with
\* acceleration = (gravity + drag + magnus) / mass at the old velocity, and
\* no list that existed before the step is modified.
C4_ExplicitEuler ==
    [][\A p \in Pitches :
         Stepped(p) =>
           LET x == heap[position[p]]
               v == heap[velocity[p]]
               fg == calculate_gravity(mass)
               fd == calculate_drag(v, area, drag_coefficient)
               fm == calculate_magnus(v, heap[spin[p]])
           IN  /\ Len(heap'[position'[p]]) = Len(x)
               /\ Len(heap'[velocity'[p]]) = Len(v)
               /\ \A i \in 1..Len(x) :
                    /\ heap'[position'[p]][i] = FAdd(x[i], FMul(v[i], dt[p]))
                    /\ heap'[velocity'[p]][i] =
                         FAdd(v[i],
                              FMul(FDiv(FAdd(FAdd(fg[i], fd[i]), fm[i]), mass),
                                   dt[p]))
               /\ \A a \in DOMAIN heap : heap'[a] = heap[a]]_vars

\* C4 witness: a step with dt = 2 has been taken from a moving body on
\* which gravity, drag and the Magnus force all act
C4_Witness ==
    \E p \in Pitches :
        /\ steps[p] = 1 /\ dt[p] = 2
        /\ atCall[p].velocity = << 2, -1, 1 >>
        /\ atCall[p].spin = << 0, 0, -1 >>
        /\ heap[velocity[p]] # atCall[p].velocity
        /\ ~HasNaN(heap[velocity[p]])

\* the throw of p was called with valid arguments on a body in flight
ValidInFlightCall(p) ==
    /\ Thrown(p)
    /\ dt[p] > 0 /\ distance[p] > 0
    /\ WhileCond(atCall[p].position, distance[p])

\* C5: a throw with dt > 0 and distance > 0 of a body in flight reaches the
\* Terminated state after finitely many steps: until it is Terminated, the
\* loop goes on, and it does so for fewer than MaxSteps steps.
C5_Terminates ==
    \A p \in Pitches :
        ValidInFlightCall(p) =>
            \/ Terminated(p)
            \/ /\ pc[p] = "loop"
               /\ WhileCond(heap[position[p]], distance[p])
               /\ StepsOfCall(p) < MaxSteps

\* C6: a throw with dt <= 0 or distance <= 0 is rejected: it does not return
\* normally and position, velocity and trail are as they were at the call.
C6_InvalidRejected ==
    \A p \in Pitches :
        (Thrown(p) /\ (dt[p] <= 0 \/ distance[p] <= 0)) =>
            /\ pc[p] # "returned"
            /\ Body(p) = atCall[p]

\* C7: a step with dt > 0 taken by a body whose velocity is the zero vector
\* yields a new velocity and a new position without NaN.
C7_ZeroVelocityStep ==
    [][\A p \in Pitches :
         (Stepped(p) /\ dt[p] > 0 /\ heap[velocity[p]] = << 0, 0, 0 >>) =>
             /\ ~HasNaN(heap'[velocity'[p]])
             /\ ~HasNaN(heap'[position'[p]])]_vars

RECURSIVE MinLen(_)
MinLen(fs) ==
    IF Len(fs) = 1 THEN Len(fs[1]) ELSE Min(Len(fs[1]), MinLen(Tail(fs)))

RECURSIVE SumAt(_, _)
SumAt(fs, i) == IF fs = << >> THEN 0 ELSE fs[1][i] + SumAt(Tail(fs), i)

\* C8: add_forces returns the element-wise sum truncated to the shortest
\* input: the result is as long as the shortest force, also when that is
\* longer than 3, and component i is the sum of the components i.
C8_SumOfShortest ==
    called =>
        /\ Len(net) = MinLen(forces)
        /\ \A i \in 1..Len(net) : net[i] = SumAt(forces, i)

\* a pitch whose throw is not running before or after this transition
NotThrowing(p) == pc[p] # "loop" /\ pc'[p] # "loop"

\* C9: a throw of one pitch leaves every other pitch as it is: the lists its
\* position, velocity, spin and trail refer to, and their contents, also
\* when both pitches were built from the same position and velocity lists.
C9_Independent ==
    [][\A b \in Pitches :
         NotThrowing(b) =>
             /\ Body(b)' = Body(b)
             /\ position'[b] = position[b]
             /\ velocity'[b] = velocity[b]
             /\ trail'[b] = trail[b]]_vars

\* C9 witness: both pitches, built from the same lists, have flown, the
\* first one first, and the second still started from the release point
C9_Witness ==
    /\ pc[1] = "returned" /\ pc[2] = "returned"
    /\ steps[1] >= 2 /\ steps[2] >= 2
    /\ trail[1][1] = trail[2][1]
    /\ atCall[2].position = heap[1]
    /\ atCall[2].trail = << heap[1] >>
    /\ Len(atCall[1].trail) = 1

\* C10 as claimed, of a body that has flown and of throws with distance > 0
\* and dt > 0: once a throw of the body has completed, nothing changes its
\* trail, position or velocity, whatever the distance and dt of a further
\* throw.
C10_ReadOnlyOnceThrown ==
    [][\A p \in Pitches :
         (/\ completed[p] # << >>
          /\ steps[p] >= 1
          /\ \A i \in 1..Len(completed[p]) : completed[p][i] > 0
          /\ pc[p] = "loop" => (distance[p] > 0 /\ dt[p] > 0))
             => Body(p)' = Body(p)]_vars

\* the distance of the throw p completed last
LastDistance(p) == completed[p][Len(completed[p])]

\* C10 as amended: once a throw of a body has completed, nothing changes its
\* trail, position or velocity but a further throw of that body to a
\* distance greater than that of the throw it completed last; a further
\* throw to the same or a smaller distance, with any dt, changes nothing.
C10_ReadOnlyUpToDistance ==
    [][\A p \in Pitches :
         (/\ completed[p] # << >>
          /\ pc[p] = "loop" => distance[p] <= LastDistance(p))
             => Body(p)' = Body(p)]_vars

\* C10 witness: a body that flew has completed a second throw, with dt > 0,
\* to a distance not greater than that of its first
C10_Witness ==
    \E p \in Pitches :
        /\ Len(completed[p]) = 2
        /\ completed[p][2] <= completed[p][1]
        /\ completed[p][2] > 0
        /\ pc[p] = "returned"
        /\ dt[p] > 0
        /\ steps[p] >= 2
        /\ heap[position[p]][2] > 0

\* the last entry of the trail of p
LastRecorded(p) == heap[trail[p][Len(trail[p])]]

\* C11 as claimed, of a throw with dt > 0 that took a step and produced no
\* NaN: when the throw has completed, the last entry of the trail still
\* satisfies the continue condition x < distance and height > 0.
C11_LastSatisfiesContinue ==
    \A p \in Pitches :
        (/\ pc[p] = "returned"
         /\ StepsOfCall(p) >= 1
         /\ dt[p] > 0
         /\ ~HasNaN(heap[position[p]]))
            => WhileCond(LastRecorded(p), distance[p])

\* C11 as amended: the check is made at the start of each iteration, so a
\* step, with its force computation, is only taken from a position that
\* satisfies the continue condition; every position the throw recorded
\* before its last satisfies it, and when the throw has completed the last
\* entry of the trail, which is the current position, is the first that
\* fails it.
C11_FirstFailingRecorded ==
    /\ [](\A p \in Pitches :
            Thrown(p) =>
                /\ \A i \in Len(atCall[p].trail)..(Len(trail[p]) - 1) :
                       WhileCond(heap[trail[p][i]], distance[p])
                /\ pc[p] = "returned" =>
                       /\ trail[p][Len(trail[p])] = position[p]
                       /\ ~WhileCond(LastRecorded(p), distance[p]))
    /\ [][\A p \in Pitches :
            Stepped(p) =>
                /\ pc[p] = "loop"
                /\ WhileCond(heap[position[p]], distance[p])]_vars

\* C11 witness: a throw with dt > 0 has completed after two steps or more,
\* the ball past the target distance and above the ground, the entry before
\* the last still short of the distance
C11_Witness ==
    \E p \in Pitches :
        /\ pc[p] = "returned"
        /\ StepsOfCall(p) >= 2
        /\ dt[p] > 0 /\ distance[p] > 0
        /\ ~HasNaN(LastRecorded(p))
        /\ LastRecorded(p)[1] >= distance[p]
        /\ LastRecorded(p)[2] > 0
        /\ heap[trail[p][Len(trail[p]) - 1]][1] < distance[p]

\* the least integer not below a / b, for a >= 0 and b > 0
CeilDiv(a, b) == (a + b - 1) \div b

\* the running or last throw of p was called with dt > 0 on a body at x = 0,
\* in flight, with forward velocity
ForwardFromRelease(p) ==
    /\ Thrown(p)
    /\ dt[p] > 0
    /\ atCall[p].position[1] = 0
    /\ WhileCond(atCall[p].position, distance[p])
    /\ FGt(atCall[p].velocity[1], 0)

\* C12 as claimed, of a body without spin, on which only gravity and drag
\* act, and of throws that produce no NaN: a throw of a body released at
\* x = 0, in flight, with forward velocity velocity_x > 0 takes at most
\* ceil(distance / (velocity_x * dt)) steps.
C12_StepBound ==
    \A p \in Pitches :
        (/\ ForwardFromRelease(p)
         /\ heap[spin[p]] = << 0, 0, 0 >>
         /\ ~HasNaN(heap[position[p]])) =>
            StepsOfCall(p) <=
                CeilDiv(distance[p], atCall[p].velocity[1] * dt[p])

\* C12 as amended: a throw of a body released at x = 0, in flight, with
\* forward velocity velocity_x > 0 takes at least one step, and when
\* velocity_x * dt >= distance, so that the bound is 1, it takes exactly
\* one: the first step advances x by velocity_x * dt.
C12_OneStepWhenBoundIsOne ==
    \A p \in Pitches :
        ForwardFromRelease(p) =>
            /\ pc[p] = "returned" => StepsOfCall(p) >= 1
            /\ StepsOfCall(p) >= 1 =>
                   heap[trail[p][Len(atCall[p].trail) + 1]][1] =
                       atCall[p].velocity[1] * dt[p]
            /\ atCall[p].velocity[1] * dt[p] >= distance[p] =>
                   StepsOfCall(p) <= 1

\* C12 witness: a throw with velocity_x * dt >= distance has completed in
\* one step, the ball past the distance and still above the ground
C12_Witness ==
    \E p \in Pitches :
        /\ ForwardFromRelease(p)
        /\ pc[p] = "returned"
        /\ atCall[p].velocity[1] * dt[p] >= distance[p]
        /\ StepsOfCall(p) = 1
        /\ LastRecorded(p)[1] >= distance[p]
        /\ LastRecorded(p)[2] > 0

\* the number of components the body of p was built with
Dim(p) == Len(heap[trail[p][1]])

\* C13: a body whose position, velocity and spin all have N components,
\* for any N >= 1, is thrown to completion, no throw of it with dt > 0 and
\* distance > 0 ending in an exception, and its position, its velocity and
\* every entry of its trail have N components in every state.
C13_DimensionAgnostic ==
    \A p \in Pitches :
        (pc[p] = "idle" \/ (dt[p] > 0 /\ distance[p] > 0)) =>
            /\ pc[p] # "raised"
            /\ Len(heap[position[p]]) = Dim(p)
            /\ Len(heap[velocity[p]]) = Dim(p)
            /\ \A i \in 1..Len(trail[p]) : Len(heap[trail[p][i]]) = Dim(p)

====
